---- MODULE Spec2Model ----
(***************************************************************************)
(* Transport abstraction layer of libjaylink (libjaylink/transport.c).     *)
(*                                                                         *)
(* The device handle's framing cursors and scratch buffer are the state;   *)
(* transport_start_write, transport_start_read, transport_start_write_read,*)
(* transport_write and transport_read are the operations, between         *)
(* transport_open and transport_close.  A call of                          *)
(* transport_write / transport_read blocks in libusb_bulk_transfer(); the  *)
(* model follows the call from one bulk transfer to the next (pc), each    *)
(* transfer ending the way the USB stack decides (result code and number   *)
(* of transferred bytes).                                                  *)
(*                                                                         *)
(* Byte strings.  The code never inspects the bytes it moves, so a byte is *)
(* identified by where it comes from: <<"w", i>> is the i-th byte the      *)
(* caller passed to transport_write since the operation was started,       *)
(* <<"d", i>> the i-th byte the device produced since the                  *)
(* operation was started, <<"u", i>> the i-th byte of the scratch buffer   *)
(* as it was when the operation was started and <<"c", i>> the i-th byte   *)
(* of the caller's read buffer as it was passed to transport_read.  A byte *)
(* string is kept run-length encoded: a sequence of runs                   *)
(* <<src, lo, n>> standing for the n bytes <<src, lo>> .. <<src, lo+n-1>>, *)
(* with no empty run and no two adjacent runs that join, so that two byte  *)
(* strings are equal exactly when their encodings are.                     *)
(***************************************************************************)
EXTENDS Integers, Sequences, FiniteSets, TLC

\* transport.c:45
NUM_TIMEOUTS == 2
\* transport.c:48
CHUNK_SIZE == 2048
\* transport.c:56
BUFFER_SIZE == CHUNK_SIZE

\* Bounds of the model.
\* transport_write and transport_read calls explored per started operation.
MaxCalls == 3
\* Bulk transfers per started operation that end otherwise than "success,
\* everything that was asked for", in a session that only writes or only
\* reads, and in a session that does both.
MaxFaults == 2
MaxMixFaults == 1
\* The same in a session that makes short reads against a backend that times
\* out.
MaxSlowFaults == 3

\* Lengths passed to transport_start_write, to transport_write, to
\* transport_start_read and to transport_read in a session that only writes
\* or only reads: operations shorter and longer than the scratch buffer.
WriteOpLens == {0, 3, CHUNK_SIZE, CHUNK_SIZE + 3, 2 * CHUNK_SIZE + 3}
WriteCallLens ==
    {0, 1, 2, 3, CHUNK_SIZE - 1, CHUNK_SIZE, CHUNK_SIZE + 3, 2 * CHUNK_SIZE + 2}
ReadOpLens == {0, 5, CHUNK_SIZE + 5}
ReadCallLens == {0, 2, 3, 5, CHUNK_SIZE, CHUNK_SIZE + 5}
\* The same in a session that writes and reads.
MixWriteOpLens == {0, 3}
MixWriteCallLens == {1, 2, 4}
MixReadOpLens == {0, 5}
MixReadCallLens == {2, 3, 6}
\* The same in an exchange whose write is longer than the scratch buffer.
LongWriteOpLens == {3, CHUNK_SIZE + 3}
LongWriteCallLens == {3, CHUNK_SIZE}
LongReadOpLens == {5, CHUNK_SIZE + 5}
LongReadCallLens == {2, 3, CHUNK_SIZE}
\* out_length and in_length of the jaylink_fine_io() calls explored
\* (uint32_t): short, longer than the scratch buffer, and such that
\* 13 + out_length or 4 + in_length does not fit an uint16_t.
FineOutLens == {0, CHUNK_SIZE, 65536 - 13, 65536 - 6, 65536 + 3}
FineInLens == {0, 1, 65536 - 2}
\* Result codes of libusb_bulk_transfer() the code tells apart.
UsbResults == {"LIBUSB_SUCCESS", "LIBUSB_ERROR_TIMEOUT", "LIBUSB_ERROR_IO"}

MIN(a, b) == IF a < b THEN a ELSE b
U8(x) == x % 256
U16(x) == x % 65536

---------------------------------------------------------------------------
\* Byte strings (run-length encoded).

Bytes(src, lo, n) == IF n = 0 THEN << >> ELSE << <<src, lo, n>> >>

RECURSIVE BLen(_)
BLen(s) == IF s = << >> THEN 0 ELSE s[1][3] + BLen(Tail(s))

BCat(a, b) ==
    IF a = << >> THEN b
    ELSE IF b = << >> THEN a
    ELSE LET x == a[Len(a)]
             y == b[1]
         IN  IF x[1] = y[1] /\ x[2] + x[3] = y[2]
             THEN SubSeq(a, 1, Len(a) - 1) \o << <<x[1], x[2], x[3] + y[3]>> >> \o Tail(b)
             ELSE a \o b

\* The first k bytes of s.
RECURSIVE BTake(_, _)
BTake(s, k) ==
    IF k = 0 \/ s = << >> THEN << >>
    ELSE IF s[1][3] <= k THEN << s[1] >> \o BTake(Tail(s), k - s[1][3])
    ELSE << <<s[1][1], s[1][2], k>> >>

\* s without its first k bytes.
RECURSIVE BDrop(_, _)
BDrop(s, k) ==
    IF k = 0 \/ s = << >> THEN s
    ELSE IF s[1][3] <= k THEN BDrop(Tail(s), k - s[1][3])
    ELSE << <<s[1][1], s[1][2] + k, s[1][3] - k>> >> \o Tail(s)

\* The n bytes at p + off, for a pointer p to the byte string s.
BSub(s, off, n) == BTake(BDrop(s, off), n)

\* Faulty variants of the code's decisions are kept beside the decisions they
\* vary (here: a copy that ignores the offset); the properties below are
\* checked to fail with them.
MemCpyAtStart(dst, off, src) == BCat(src, BDrop(dst, BLen(src)))

\* memcpy(dst + off, src, BLen(src)): dst with the bytes at off overwritten.
MemCpy(dst, off, src) ==
    BCat(BCat(BTake(dst, off), src), BDrop(dst, off + BLen(src)))

---------------------------------------------------------------------------
VARIABLES
    \* struct jaylink_device_handle
    write_length, write_pos, read_length, bytes_available, read_pos, buffer,
    \* the last call: where it stands (pc), its function, arguments, result
    \* and the cursors it found (call), the caller's buffer (arg), its locals (fr)
    pc, call, arg, fr,
    \* what has happened since the last transport_start_*() call
    kind, w_decl, r_decl, w_given_n, w_fit, w_failed, w_sent,
    r_asked, r_fit, r_got, dev_pos, early_read, xfers, ncalls, faults,
    \* the handle's life (new, open, failed, closed) and what it holds: the
    \* scratch buffer (allocated), a libusb device handle (usb_open), the
    \* claimed interface (claimed), and whether devh->usb_devh was assigned
    life, allocated, usb_open, claimed, usb_devh,
    \* the jaylink_fine_io() call: where it stands (pc), its arguments, its
    \* result (ret) and the transport calls it has made (calls)
    fine

devh == <<write_length, write_pos, read_length, bytes_available, read_pos, buffer>>
frame == <<pc, call, arg, fr>>
whist == <<w_given_n, w_fit, w_failed, w_sent>>
rhist == <<r_asked, r_fit, r_got, dev_pos, early_read>>
hist == <<kind, w_decl, r_decl, whist, rhist, xfers, ncalls, faults>>
usb == <<life, allocated, usb_open, claimed, usb_devh>>
vars == <<devh, frame, hist, usb, fine>>

NoFrame ==
    [off |-> 0, len |-> 0, phase |-> "none",
     s_base |-> "none", s_off |-> 0, s_len |-> 0, tries |-> 0]

\* The bytes the caller has passed to transport_write since the operation
\* was started, and the bytes the device has produced since then.
w_given == Bytes("w", 1, w_given_n)
r_produced == Bytes("d", 1, dev_pos)

\* The write cursors and the number of bulk transfers made so far, as a call
\* finds them on entry.
Entry == [write_length |-> write_length, write_pos |-> write_pos, xfers |-> Len(xfers)]

\* No transport call has been made on the handle but fn, which has returned
\* JAYLINK_OK.
NoFine ==
    [pc |-> "none", out_length |-> 0, in_length |-> 0, ret |-> "none",
     calls |-> << >>]

NoCallYet(fn) ==
    /\ fine = NoFine
    /\ buffer = Bytes("u", 1, BUFFER_SIZE)
    /\ pc = "idle"
    /\ call = [fn |-> fn, length |-> 0, rlength |-> 0,
               ret |-> "JAYLINK_OK", warn |-> {}, err |-> "none",
               at |-> [write_length |-> 0, write_pos |-> 0, xfers |-> 0]]
    /\ arg = << >>
    /\ fr = NoFrame
    /\ kind = "none"
    /\ w_decl = 0
    /\ r_decl = 0
    /\ w_given_n = 0
    /\ w_fit = TRUE
    /\ w_failed = FALSE
    /\ w_sent = << >>
    /\ r_asked = 0
    /\ r_fit = TRUE
    /\ r_got = << >>
    /\ dev_pos = 0
    /\ early_read = FALSE
    /\ xfers = << >>
    /\ ncalls = 0
    /\ faults = 0

\* transport_open() has returned JAYLINK_OK: the cursors are zero, the buffer
\* is fresh memory, the device is open and its interface claimed.
Init ==
    /\ life = "open"
    /\ allocated = TRUE
    /\ usb_open = TRUE
    /\ claimed = TRUE
    /\ usb_devh = "set"
    /\ write_length = 0
    /\ write_pos = 0
    /\ read_length = 0
    /\ bytes_available = 0
    /\ read_pos = 0
    /\ NoCallYet("transport_open")

\* The handle before transport_open(): jaylink_open() has allocated it and
\* assigned none of its fields.
Uninitialized == {0, 1}

InitO ==
    /\ life = "new"
    /\ allocated = FALSE
    /\ usb_open = FALSE
    /\ claimed = FALSE
    /\ usb_devh = "unset"
    /\ write_length \in Uninitialized
    /\ write_pos \in Uninitialized
    /\ read_length \in Uninitialized
    /\ bytes_available \in Uninitialized
    /\ read_pos \in Uninitialized
    /\ NoCallYet("none")

\* A call that returns at once, after the warnings warn about the operation
\* it found and the error message err of transport_open().
ReturnsLogged(fn, length, rlength, ret, warn, err) ==
    /\ pc' = "idle"
    /\ call' = [fn |-> fn, length |-> length, rlength |-> rlength, ret |-> ret,
                warn |-> warn, err |-> err, at |-> Entry]

ReturnsWarned(fn, length, rlength, ret, warn) ==
    ReturnsLogged(fn, length, rlength, ret, warn, "none")

Returns(fn, length, rlength, ret) == ReturnsWarned(fn, length, rlength, ret, {})

\* transport.c:286-291 and 373-378
WriteWarningsStaged ==
    IF write_pos # 0 THEN {"Last write operation left bytes in the buffer."} ELSE {}
WriteWarnings ==
    (IF write_pos # 0
     THEN {"Last write operation left bytes in the buffer."} ELSE {})
    \cup (IF write_length # 0
          THEN {"Last write operation was not performed."} ELSE {})

\* transport.c:323-329 and 380-386
ReadWarnings ==
    (IF bytes_available # 0
     THEN {"Last read operation left bytes in the buffer."} ELSE {})
    \cup (IF read_length # 0
          THEN {"Last read operation left bytes on the device."} ELSE {})

\* A fresh record of what happens in the operation started now.  The scratch
\* buffer keeps its bytes: from now on they are named as the bytes it held
\* when the operation was started.
Started(k, w, r) ==
    /\ buffer' = Bytes("u", 1, BLen(buffer))
    /\ kind' = k
    /\ w_decl' = w
    /\ r_decl' = r
    /\ w_given_n' = 0
    /\ w_fit' = TRUE
    /\ w_failed' = FALSE
    /\ w_sent' = << >>
    /\ r_asked' = 0
    /\ r_fit' = TRUE
    /\ r_got' = << >>
    /\ dev_pos' = 0
    /\ early_read' = FALSE
    /\ xfers' = << >>
    /\ ncalls' = 0
    /\ faults' = 0

---------------------------------------------------------------------------
\* The five cursors of the handle, and their assignment.
Cursors ==
    [write_length |-> write_length, write_pos |-> write_pos,
     read_length |-> read_length, bytes_available |-> bytes_available,
     read_pos |-> read_pos]

SetCursors(c) ==
    /\ write_length' = c.write_length
    /\ write_pos' = c.write_pos
    /\ read_length' = c.read_length
    /\ bytes_available' = c.bytes_available
    /\ read_pos' = c.read_pos

\* transport.c:293-294
StartWrite(c, length) == [c EXCEPT !.write_length = length, !.write_pos = 0]

\* transport.c:331-333
StartRead(c, length) ==
    [c EXCEPT !.read_length = length, !.bytes_available = 0, !.read_pos = 0]

\* transport.c:388-393
StartWriteReadKeepsPos(c, wlength, rlength) ==
    [c EXCEPT !.write_length = wlength, !.read_length = rlength,
              !.bytes_available = 0]
StartWriteRead(c, wlength, rlength) ==
    [c EXCEPT !.write_length = wlength, !.write_pos = 0,
              !.read_length = rlength, !.bytes_available = 0, !.read_pos = 0]

transport_start_write(length) ==
    /\ pc = "idle"
    /\ UNCHANGED <<usb, fine>>
    /\ UNCHANGED <<arg, fr>>
    /\ IF length = 0
       THEN /\ Returns("transport_start_write", length, 0, "JAYLINK_ERR_ARG")
            /\ UNCHANGED <<devh, hist>>
       ELSE /\ SetCursors(StartWrite(Cursors, length))
            /\ Started("W", length, 0)
            /\ ReturnsWarned("transport_start_write", length, 0, "JAYLINK_OK",
                             WriteWarnings)

transport_start_read(length) ==
    /\ pc = "idle"
    /\ UNCHANGED <<usb, fine>>
    /\ UNCHANGED <<arg, fr>>
    /\ IF length = 0
       THEN /\ Returns("transport_start_read", 0, length, "JAYLINK_ERR_ARG")
            /\ UNCHANGED <<devh, hist>>
       ELSE /\ SetCursors(StartRead(Cursors, length))
            /\ Started("R", 0, length)
            /\ ReturnsWarned("transport_start_read", 0, length, "JAYLINK_OK",
                             ReadWarnings)

\* transport.c:365
WriteReadRejectsBoth(wlength, rlength) == rlength = 0 /\ wlength = 0
WriteReadRejects(wlength, rlength) == rlength = 0 \/ wlength = 0

transport_start_write_read(wlength, rlength) ==
    /\ pc = "idle"
    /\ UNCHANGED usb
    /\ UNCHANGED <<arg, fr>>
    /\ IF WriteReadRejects(wlength, rlength)
       THEN /\ Returns("transport_start_write_read", wlength, rlength, "JAYLINK_ERR_ARG")
            /\ UNCHANGED <<devh, hist>>
       ELSE /\ SetCursors(StartWriteRead(Cursors, wlength, rlength))
            /\ Started("WR", wlength, rlength)
            /\ ReturnsWarned("transport_start_write_read", wlength, rlength,
                             "JAYLINK_OK", WriteWarnings \cup ReadWarnings)

---------------------------------------------------------------------------
\* transport_write(), up to its first bulk transfer.

\* transport.c:516
WriteExceedsByTwo(length) == length > write_length + 1
WriteExceeds(length) == length > write_length

\* transport.c:527
BuffersLast(length) == length <= write_length
Buffers(length) == length < write_length

\* transport.c:528
WriteOverflowsNever(length) == FALSE
WriteOverflowsWhenFull(length) == write_pos + length >= BUFFER_SIZE
WriteOverflows(length) == write_pos + length > BUFFER_SIZE

\* transport.c:560-565: the bytes that fill the buffer up to a multiple of
\* CHUNK_SIZE (num_chunks is an uint8_t, fill_bytes an uint16_t).
fill_bytes_none(pos) == 0
fill_bytes(pos) ==
    LET num_chunks == IF pos % CHUNK_SIZE # 0
                      THEN U8((pos \div CHUNK_SIZE) + 1)
                      ELSE U8(pos \div CHUNK_SIZE)
    IN  U16((num_chunks * CHUNK_SIZE) - pos)

\* usb_send(devh, base + off, length) is entered; rest_off and rest_len are
\* transport_write's buffer and length, kept for the send that may follow.
SendFrame(phase, base, off, length, rest_off, rest_len) ==
    [off |-> rest_off, len |-> rest_len, phase |-> phase,
     s_base |-> base, s_off |-> off, s_len |-> length, tries |-> NUM_TIMEOUTS]

Pending(fn, length, rlength) ==
    [fn |-> fn, length |-> length, rlength |-> rlength, ret |-> "pending",
     warn |-> {}, err |-> "none", at |-> Entry]

transport_write(length) ==
    /\ pc = "idle"
    /\ UNCHANGED usb
    /\ ncalls' = ncalls + 1
    /\ w_given_n' = w_given_n + length
    /\ w_fit' = (/\ w_fit
                 /\ w_given_n + length <= w_decl
                 /\ w_given_n + length < w_decl => w_given_n + length <= BUFFER_SIZE)
    /\ UNCHANGED <<read_length, bytes_available, read_pos>>
    /\ UNCHANGED <<kind, w_decl, r_decl, w_sent, rhist, xfers, faults>>
    /\ LET data == Bytes("w", w_given_n + 1, length)
           tmp == MIN(length, fill_bytes(write_pos))
       IN
       IF WriteExceeds(length) \/ (Buffers(length) /\ WriteOverflows(length))
       THEN /\ Returns("transport_write", length, 0, "JAYLINK_ERR_ARG")
            /\ w_failed' = TRUE
            /\ UNCHANGED <<write_length, write_pos, buffer, arg, fr>>
       ELSE IF Buffers(length)
       THEN /\ buffer' = MemCpy(buffer, write_pos, data)
            /\ write_length' = U16(write_length - length)
            /\ write_pos' = U16(write_pos + length)
            /\ Returns("transport_write", length, 0, "JAYLINK_OK")
            /\ UNCHANGED <<arg, fr, w_failed>>
       ELSE IF write_pos = 0
       THEN /\ write_length' = 0
            /\ UNCHANGED <<write_pos, buffer, w_failed>>
            /\ IF length = 0
               THEN /\ Returns("transport_write", length, 0, "JAYLINK_OK")
                    /\ UNCHANGED <<arg, fr>>
               ELSE /\ pc' = "send"
                    /\ call' = Pending("transport_write", length, 0)
                    /\ arg' = data
                    /\ fr' = SendFrame("direct", "arg", 0, length, 0, 0)
       ELSE /\ write_length' = 0
            /\ UNCHANGED <<write_pos, w_failed>>
            /\ buffer' = IF tmp # 0
                         THEN MemCpy(buffer, write_pos, BTake(data, tmp))
                         ELSE buffer
            /\ pc' = "send"
            /\ call' = Pending("transport_write", length, 0)
            /\ arg' = data
            /\ fr' = SendFrame("block", "scratch", 0, U16(write_pos + tmp),
                               tmp, U16(length - tmp))

---------------------------------------------------------------------------
\* usb_send(): one libusb_bulk_transfer() to the OUT endpoint, and what
\* follows it up to the next bulk transfer or the return of transport_write.

\* transport.c:455
SendRequestWhole(length) == length
SendRequest(length) == MIN(CHUNK_SIZE, length)

\* transport.c:470
SendStays(off, transferred) == off
SendAdvance(off, transferred) == off + transferred

\* transport.c:458-463
SendTriesNoReset(res, tries) == IF res = "LIBUSB_SUCCESS" THEN tries ELSE tries - 1
SendTries(res, tries) == IF res = "LIBUSB_SUCCESS" THEN NUM_TIMEOUTS ELSE tries - 1

\* transport.c:476-481
SendResult(length) == IF length = 0 THEN "JAYLINK_OK" ELSE "JAYLINK_ERR_TIMEOUT"

\* transport.c:464-468
SendFails(res) == res # "LIBUSB_SUCCESS" /\ res # "LIBUSB_ERROR_TIMEOUT"

\* transport.c:579-580
BlockStopsNever(ret) == FALSE
BlockStops(ret) == ret # "JAYLINK_OK"

\* The transfer moved everything that was asked for.
SendNominal(res, k) == res = "LIBUSB_SUCCESS" /\ k = SendRequest(fr.s_len)

usb_send(res, k) ==
    /\ pc = "send"
    /\ UNCHANGED <<usb, fine>>
    /\ LET req == SendRequest(fr.s_len)
           src == IF fr.s_base = "scratch" THEN buffer ELSE arg
           tries1 == SendTries(res, fr.tries)
           len1 == U16(fr.s_len - k)
           again == ~SendFails(res) /\ tries1 # 0 /\ len1 # 0
           ret == IF SendFails(res) THEN "JAYLINK_ERR" ELSE SendResult(len1)
       IN
       /\ k <= req
       /\ faults' = IF SendNominal(res, k) THEN faults ELSE faults + 1
       /\ xfers' = Append(xfers, [dir |-> "OUT", req |-> req, n |-> k, res |-> res])
       /\ w_sent' = BCat(w_sent, BSub(src, fr.s_off, k))
       /\ UNCHANGED <<write_length, read_length, bytes_available, read_pos, buffer>>
       /\ UNCHANGED <<kind, w_decl, r_decl, w_given_n, w_fit, rhist, ncalls>>
       /\ IF again
          THEN /\ fr' = [fr EXCEPT !.s_off = SendAdvance(fr.s_off, k), !.s_len = len1,
                                   !.tries = tries1]
               /\ UNCHANGED <<pc, call, arg, write_pos, w_failed>>
          ELSE IF fr.phase = "block" /\ ~BlockStops(ret) /\ fr.len # 0
          THEN /\ write_pos' = 0
               /\ fr' = SendFrame("rest", "arg", fr.off, fr.len, fr.off, fr.len)
               /\ UNCHANGED <<pc, call, arg, w_failed>>
          ELSE /\ write_pos' = IF fr.phase = "block" THEN 0 ELSE write_pos
               /\ pc' = "idle"
               /\ call' = [call EXCEPT !.ret = ret]
               /\ w_failed' = (w_failed \/ ret # "JAYLINK_OK")
               /\ arg' = << >>
               /\ fr' = NoFrame

---------------------------------------------------------------------------
\* transport_read(), up to its first bulk transfer.

\* transport.c:618
ReadExceedsByTwo(length) == length > read_length + bytes_available + 1
ReadExceeds(length) == length > read_length + bytes_available

\* transport.c:658-661: where usb_recv() stores what it receives.
RecvTargetCaller(length) == "arg"
RecvTarget(length) == IF length < CHUNK_SIZE THEN "scratch" ELSE "arg"

\* usb_recv() is entered; off and length are transport_read's buffer and
\* length.
RecvFrame(off, length) ==
    [off |-> off, len |-> length, phase |-> "recv",
     s_base |-> RecvTarget(length), s_off |-> 0, s_len |-> CHUNK_SIZE,
     tries |-> NUM_TIMEOUTS]

\* All bytes of the write operation were written and every transport_write
\* call returned JAYLINK_OK.
WriteCompleted == ~w_failed /\ w_given_n = w_decl

\* transport.c:625
ServedWhenMoreBuffered(length) == length < bytes_available
Served(length) == length <= bytes_available

transport_read(length) ==
    /\ pc = "idle"
    /\ UNCHANGED usb
    /\ ncalls' = ncalls + 1
    /\ r_asked' = r_asked + length
    /\ r_fit' = (r_fit /\ r_asked + length <= r_decl)
    /\ early_read' = (early_read \/ ~WriteCompleted)
    /\ UNCHANGED <<write_length, write_pos, buffer>>
    /\ UNCHANGED <<kind, w_decl, r_decl, whist, dev_pos, xfers, faults>>
    /\ LET out == Bytes("c", 1, length)
       IN
       IF ReadExceeds(length)
       THEN /\ Returns("transport_read", 0, length, "JAYLINK_ERR_ARG")
            /\ UNCHANGED <<read_length, bytes_available, read_pos, arg, fr, r_got>>
       ELSE IF Served(length)
       THEN /\ bytes_available' = U16(bytes_available - length)
            /\ read_pos' = U16(read_pos + length)
            /\ r_got' = BCat(r_got, MemCpy(out, 0, BSub(buffer, read_pos, length)))
            /\ Returns("transport_read", 0, length, "JAYLINK_OK")
            /\ UNCHANGED <<read_length, arg, fr>>
       ELSE /\ arg' = IF bytes_available # 0
                      THEN MemCpy(out, 0, BSub(buffer, read_pos, bytes_available))
                      ELSE out
            /\ bytes_available' = 0
            /\ read_pos' = IF bytes_available # 0 THEN 0 ELSE read_pos
            /\ fr' = RecvFrame(bytes_available, U16(length - bytes_available))
            /\ pc' = "recv"
            /\ call' = Pending("transport_read", 0, length)
            /\ UNCHANGED <<read_length, r_got>>

---------------------------------------------------------------------------
\* usb_recv(): one libusb_bulk_transfer() from the IN endpoint, and what
\* follows it up to the next bulk transfer or the return of transport_read.

\* transport.c:416-420
RecvTries(res, tries) == IF res = "LIBUSB_ERROR_TIMEOUT" THEN tries - 1 ELSE tries

\* transport.c:431-438
RecvResult(transferred) ==
    IF transferred # 0 THEN "JAYLINK_OK" ELSE "JAYLINK_ERR_TIMEOUT"

\* transport.c:421-425
RecvFailsNever(res) == FALSE
RecvFails(res) == res # "LIBUSB_ERROR_TIMEOUT" /\ res # "LIBUSB_SUCCESS"

\* transport.c:666
RecvExceedsNever(bytes_received) == FALSE
RecvExceeds(bytes_received) == bytes_received > read_length

\* transport.c:686: where the bytes received beyond the request start in the
\* scratch buffer.
LeftoverPosStart(tmp) == 0
LeftoverPos(tmp) == tmp

\* The device hands over all it can of the bytes the operation still
\* expects.
RecvNominal(res, k) == res = "LIBUSB_SUCCESS" /\ k = MIN(CHUNK_SIZE, read_length)

usb_recv(res, k) ==
    /\ pc = "recv"
    /\ UNCHANGED <<usb, fine>>
    /\ LET data == Bytes("d", dev_pos + 1, k)
           buffer1 == IF fr.s_base = "scratch" THEN MemCpy(buffer, 0, data) ELSE buffer
           arg1 == IF fr.s_base = "scratch" THEN arg ELSE MemCpy(arg, fr.off, data)
           tries1 == RecvTries(res, fr.tries)
           again == ~RecvFails(res) /\ tries1 # 0 /\ k = 0
           ret == IF RecvFails(res) THEN "JAYLINK_ERR" ELSE RecvResult(k)
           tmp == MIN(k, fr.len)
           arg2 == IF fr.len < CHUNK_SIZE
                   THEN MemCpy(arg1, fr.off, BTake(buffer1, tmp))
                   ELSE arg1
           off2 == IF fr.len < CHUNK_SIZE THEN fr.off + tmp ELSE fr.off + k
           len2 == IF fr.len < CHUNK_SIZE THEN U16(fr.len - tmp) ELSE U16(fr.len - k)
       IN
       /\ k <= fr.s_len
       /\ faults' = IF RecvNominal(res, k) THEN faults ELSE faults + 1
       /\ xfers' = Append(xfers, [dir |-> "IN", req |-> fr.s_len, n |-> k, res |-> res])
       /\ dev_pos' = dev_pos + k
       /\ buffer' = buffer1
       /\ UNCHANGED <<write_length, write_pos>>
       /\ UNCHANGED <<kind, w_decl, r_decl, whist, r_asked, r_fit, early_read, ncalls>>
       /\ IF again
          THEN /\ fr' = [fr EXCEPT !.tries = tries1]
               /\ arg' = arg1
               /\ UNCHANGED <<pc, call, read_length, bytes_available, read_pos, r_got>>
          ELSE IF ret # "JAYLINK_OK" \/ RecvExceeds(k)
          THEN /\ pc' = "idle"
               /\ call' = [call EXCEPT !.ret = IF ret # "JAYLINK_OK" THEN ret
                                                ELSE "JAYLINK_ERR"]
               /\ arg' = << >>
               /\ fr' = NoFrame
               /\ UNCHANGED <<read_length, bytes_available, read_pos, r_got>>
          ELSE /\ bytes_available' = IF fr.len < CHUNK_SIZE /\ k > fr.len
                                     THEN U16(k - tmp) ELSE bytes_available
               /\ read_pos' = IF fr.len < CHUNK_SIZE /\ k > fr.len
                              THEN LeftoverPos(tmp) ELSE read_pos
               /\ read_length' = U16(read_length - k)
               /\ IF len2 # 0
                  THEN /\ fr' = RecvFrame(off2, len2)
                       /\ arg' = arg2
                       /\ UNCHANGED <<pc, call, r_got>>
                  ELSE /\ pc' = "idle"
                       /\ call' = [call EXCEPT !.ret = "JAYLINK_OK"]
                       /\ r_got' = BCat(r_got, arg2)
                       /\ arg' = << >>
                       /\ fr' = NoFrame

---------------------------------------------------------------------------
\* transport_open() and transport_close().

\* What the USB stack and the allocator answer during transport_open():
\* libusb_get_active_config_descriptor succeeds, the descriptor has the
\* interface, an IN endpoint, an OUT endpoint, malloc returns memory,
\* libusb_open succeeds, libusb_claim_interface succeeds.
OpenEnvs ==
    [config : BOOLEAN, interface : BOOLEAN, endpoint_in : BOOLEAN,
     endpoint_out : BOOLEAN, malloc : BOOLEAN, open : BOOLEAN, claim : BOOLEAN]

\* transport.c:58-154: the result of initialize_handle().
initialize_handle(env) ==
    IF ~env.config THEN "JAYLINK_ERR"
    ELSE IF ~env.interface THEN "JAYLINK_ERR"
    ELSE IF ~env.endpoint_in THEN "JAYLINK_ERR"
    ELSE IF ~env.endpoint_out THEN "JAYLINK_ERR"
    ELSE IF ~env.malloc THEN "JAYLINK_ERR_MALLOC"
    ELSE "JAYLINK_OK"

\* transport.c:84-143 and 195-206: what went wrong first.
OpenError(env) ==
    IF ~env.config THEN "Failed to get configuration descriptor"
    ELSE IF ~env.interface THEN "Interface not found"
    ELSE IF ~env.endpoint_in THEN "Interface IN endpoint not found"
    ELSE IF ~env.endpoint_out THEN "Interface OUT endpoint not found"
    ELSE IF ~env.malloc THEN "Transport buffer malloc failed"
    ELSE IF ~env.open THEN "Failed to open device"
    ELSE IF ~env.claim THEN "Failed to claim interface"
    ELSE "none"

\* transport.c:156-159: free(devh->buffer).
cleanup_handle_keeps(is_allocated) == is_allocated
cleanup_handle(is_allocated) == FALSE

transport_open(env) ==
    /\ life = "new"
    /\ UNCHANGED fine
    /\ pc = "idle"
    /\ LET init == initialize_handle(env)
           opened == init = "JAYLINK_OK" /\ env.open
           ret == IF init # "JAYLINK_OK" THEN init
                  ELSE IF ~env.open THEN "JAYLINK_ERR"
                  ELSE IF ~env.claim THEN "JAYLINK_ERR"
                  ELSE "JAYLINK_OK"
       IN
       /\ allocated' = IF init = "JAYLINK_OK" /\ ret # "JAYLINK_OK"
                       THEN cleanup_handle(TRUE)
                       ELSE init = "JAYLINK_OK"
       /\ usb_open' = (opened /\ env.claim)
       /\ claimed' = (opened /\ env.claim)
       /\ usb_devh' = IF ret = "JAYLINK_OK" THEN "set" ELSE usb_devh
       /\ life' = IF ret = "JAYLINK_OK" THEN "open" ELSE "failed"
       /\ IF init = "JAYLINK_OK"
          THEN /\ read_length' = 0
               /\ bytes_available' = 0
               /\ read_pos' = 0
               /\ write_length' = 0
               /\ write_pos' = 0
          ELSE UNCHANGED <<read_length, bytes_available, read_pos,
                           write_length, write_pos>>
       /\ ReturnsLogged("transport_open", 0, 0, ret, {}, OpenError(env))
       /\ UNCHANGED <<buffer, arg, fr, hist>>

\* transport.c:248-254
CloseResultOk(released) == "JAYLINK_OK"
CloseResult(released) == IF released THEN "JAYLINK_OK" ELSE "JAYLINK_ERR"

\* released: libusb_release_interface() succeeds.
transport_close(released) ==
    /\ life = "open"
    /\ UNCHANGED fine
    /\ pc = "idle"
    /\ claimed' = ~released
    /\ usb_open' = FALSE
    /\ allocated' = cleanup_handle(allocated)
    /\ life' = "closed"
    /\ Returns("transport_close", 0, 0, CloseResult(released))
    /\ UNCHANGED <<devh, usb_devh, arg, fr, hist>>

---------------------------------------------------------------------------
\* jaylink_fine_io() (fine.c:57-121): one action per transport call it makes,
\* each looking first at the result of the call before.

\* fine.c:73, 86, 94, 102, 111
FineStopsNever(ret) == FALSE
FineStops(ret) == ret # "JAYLINK_OK"

FineReturns(ret) ==
    /\ fine' = [fine EXCEPT !.pc = "done", !.ret = ret]
    /\ UNCHANGED <<devh, frame, hist, usb>>

FineCalls(next, fn, length, rlength) ==
    fine' = [fine EXCEPT !.pc = next,
                         !.calls = Append(@, [fn |-> fn, length |-> length,
                                              rlength |-> rlength])]

\* fine.c:65-71.  valid: devh, out and in are not NULL.
jaylink_fine_io(valid, out_length, in_length) ==
    /\ fine.pc \in {"none", "done"}
    /\ pc = "idle"
    /\ IF ~valid
       THEN /\ fine' = [pc |-> "done", out_length |-> out_length,
                        in_length |-> in_length, ret |-> "JAYLINK_ERR_ARG",
                        calls |-> << >>]
            /\ UNCHANGED <<devh, frame, hist, usb>>
       ELSE \* the uint32_t sums, converted to the uint16_t parameters:
            \* (x mod 2^32) mod 2^16 = x mod 2^16
            LET wlength == U16(13 + out_length)
                rlength == U16(4 + in_length)
            IN  /\ transport_start_write_read(wlength, rlength)
                /\ fine' = [pc |-> "started", out_length |-> out_length,
                            in_length |-> in_length, ret |-> "pending",
                            calls |-> <<[fn |-> "transport_start_write_read",
                                         length |-> wlength, rlength |-> rlength]>>]

\* fine.c:73-84
fine_write_header ==
    /\ fine.pc = "started"
    /\ pc = "idle"
    /\ IF FineStops(call.ret) THEN FineReturns(call.ret)
       ELSE /\ transport_write(13)
            /\ FineCalls("header", "transport_write", 13, 0)

\* fine.c:86-92
fine_write_out ==
    /\ fine.pc = "header"
    /\ pc = "idle"
    /\ IF FineStops(call.ret) THEN FineReturns(call.ret)
       ELSE /\ transport_write(U16(fine.out_length))
            /\ FineCalls("out", "transport_write", U16(fine.out_length), 0)

\* fine.c:94-100
fine_read_in ==
    /\ fine.pc = "out"
    /\ pc = "idle"
    /\ IF FineStops(call.ret) THEN FineReturns(call.ret)
       ELSE /\ transport_read(U16(fine.in_length))
            /\ FineCalls("in", "transport_read", 0, U16(fine.in_length))

\* fine.c:102-108
fine_read_status ==
    /\ fine.pc = "in"
    /\ pc = "idle"
    /\ IF FineStops(call.ret) THEN FineReturns(call.ret)
       ELSE /\ transport_read(4)
            /\ FineCalls("status", "transport_read", 0, 4)

\* fine.c:111-120
fine_return ==
    /\ fine.pc = "status"
    /\ pc = "idle"
    /\ FineReturns(call.ret)

---------------------------------------------------------------------------
\* The caller and the USB stack.  The caller makes at most MaxCalls
\* transport_write / transport_read calls per started operation.  At most
\* MaxFaults (MaxMixFaults in a session that writes and reads, MaxSlowFaults
\* in a session of slow reads) bulk transfers of an operation end otherwise than with everything that was asked for,
\* and a transfer that fails with an error other than a timeout moves no
\* byte.
SendSizes(res) ==
    IF res = "LIBUSB_ERROR_IO" THEN {0} ELSE {0, 1, SendRequest(fr.s_len)}

RecvSizes(res) ==
    IF res = "LIBUSB_ERROR_IO" THEN {0}
    ELSE {0, 2, 5, CHUNK_SIZE, MIN(CHUNK_SIZE, read_length)}

MixRecvSizes(res) ==
    IF res = "LIBUSB_ERROR_IO" THEN {0} ELSE {0, 2, MIN(CHUNK_SIZE, read_length)}

MayCall == ncalls < MaxCalls

MayFail(nominal, max) == nominal \/ faults < max

write_call(length) == MayCall /\ transport_write(length) /\ UNCHANGED fine

read_call(length) == MayCall /\ transport_read(length) /\ UNCHANGED fine

start_write_read_call(wlength, rlength) ==
    transport_start_write_read(wlength, rlength) /\ UNCHANGED fine

bulk_out(res, k, max) == MayFail(SendNominal(res, k), max) /\ usb_send(res, k)

bulk_in(res, k, max) == MayFail(RecvNominal(res, k), max) /\ usb_recv(res, k)

\* A session that writes and reads short operations.
Next ==
    \/ \E length \in MixWriteOpLens : transport_start_write(length)
    \/ \E length \in MixReadOpLens : transport_start_read(length)
    \/ \E wlength \in MixWriteOpLens, rlength \in MixReadOpLens :
          start_write_read_call(wlength, rlength)
    \/ \E length \in MixWriteCallLens : write_call(length)
    \/ \E res \in UsbResults : \E k \in SendSizes(res) : bulk_out(res, k, MaxMixFaults)
    \/ \E length \in MixReadCallLens : read_call(length)
    \/ \E res \in UsbResults : \E k \in MixRecvSizes(res) : bulk_in(res, k, MaxMixFaults)

Spec == Init /\ [][Next]_vars

\* A session that only writes.
NextW ==
    \/ \E length \in WriteOpLens : transport_start_write(length)
    \/ \E length \in WriteCallLens : write_call(length)
    \/ \E res \in UsbResults : \E k \in SendSizes(res) : bulk_out(res, k, MaxFaults)

SpecW == Init /\ [][NextW]_vars

\* A session that only reads.
NextR ==
    \/ \E length \in ReadOpLens : transport_start_read(length)
    \/ \E length \in ReadCallLens : read_call(length)
    \/ \E res \in UsbResults : \E k \in RecvSizes(res) : bulk_in(res, k, MaxFaults)

SpecR == Init /\ [][NextR]_vars

\* A session of short reads against a backend that times out.
NextT ==
    \/ \E length \in MixReadOpLens : transport_start_read(length)
    \/ \E length \in MixReadCallLens : read_call(length)
    \/ \E res \in UsbResults : \E k \in MixRecvSizes(res) : bulk_in(res, k, MaxSlowFaults)

SpecT == Init /\ [][NextT]_vars

\* A session of write-then-read exchanges in which two transfers may go wrong.
NextE ==
    \/ \E wlength \in MixWriteOpLens, rlength \in MixReadOpLens :
          start_write_read_call(wlength, rlength)
    \/ \E length \in MixWriteCallLens : write_call(length)
    \/ \E res \in UsbResults : \E k \in SendSizes(res) : bulk_out(res, k, MaxFaults)
    \/ \E length \in MixReadCallLens : read_call(length)
    \/ \E res \in UsbResults : \E k \in MixRecvSizes(res) : bulk_in(res, k, MaxFaults)

SpecE == Init /\ [][NextE]_vars

\* The life of a handle: opened, used for write-then-read exchanges, closed.
Opened == life = "open"

NextO ==
    \/ \E env \in OpenEnvs : transport_open(env)
    \/ \E released \in BOOLEAN : transport_close(released)
    \/ \E wlength \in MixWriteOpLens, rlength \in MixReadOpLens :
          Opened /\ start_write_read_call(wlength, rlength)
    \/ \E length \in MixWriteCallLens : Opened /\ write_call(length)
    \/ \E res \in UsbResults : \E k \in SendSizes(res) : bulk_out(res, k, MaxMixFaults)
    \/ \E length \in MixReadCallLens : Opened /\ read_call(length)
    \/ \E res \in UsbResults : \E k \in MixRecvSizes(res) : bulk_in(res, k, MaxMixFaults)

SpecO == InitO /\ [][NextO]_vars

\* A session of write-then-read exchanges whose write and read may be longer
\* than the scratch buffer.
NextL ==
    \/ \E wlength \in LongWriteOpLens, rlength \in LongReadOpLens :
          start_write_read_call(wlength, rlength)
    \/ \E length \in LongWriteCallLens : write_call(length)
    \/ \E res \in UsbResults : \E k \in SendSizes(res) : bulk_out(res, k, MaxFaults)
    \/ \E length \in LongReadCallLens : read_call(length)
    \/ \E res \in UsbResults : \E k \in RecvSizes(res) : bulk_in(res, k, MaxFaults)

SpecL == Init /\ [][NextL]_vars

\* A session of jaylink_fine_io() calls.
NextF ==
    \/ \E valid \in BOOLEAN, out_length \in FineOutLens, in_length \in FineInLens :
          jaylink_fine_io(valid, out_length, in_length)
    \/ fine_write_header
    \/ fine_write_out
    \/ fine_read_in
    \/ fine_read_status
    \/ fine_return
    \/ \E res \in UsbResults : \E k \in SendSizes(res) : bulk_out(res, k, MaxFaults)
    \/ \E res \in UsbResults : \E k \in RecvSizes(res) : bulk_in(res, k, MaxFaults)

SpecF == Init /\ [][NextF]_vars

---------------------------------------------------------------------------
\* What the backend saw of the operation.

\* The positions in xfers of the bulk transfers to the OUT endpoint and from
\* the IN endpoint.
OutXfers == {i \in 1..Len(xfers) : xfers[i].dir = "OUT"}
InXfers == {i \in 1..Len(xfers) : xfers[i].dir = "IN"}

\* The number of bytes the OUT transfers among the first j transfers moved.
RECURSIVE OutBytes(_)
OutBytes(j) ==
    IF j = 0 THEN 0
    ELSE OutBytes(j - 1) + (IF xfers[j].dir = "OUT" THEN xfers[j].n ELSE 0)

\* The backend accepted every OUT transfer: each succeeded and moved all the
\* bytes it was asked to move.
BackendAccepts ==
    \A i \in OutXfers : xfers[i].res = "LIBUSB_SUCCESS" /\ xfers[i].n = xfers[i].req

\* The backend delivers the bytes of the read operation and no more: every
\* receive succeeded (with any number of bytes up to CHUNK_SIZE) and the
\* device produced at most the declared number of bytes.
BackendDelivers ==
    /\ \A i \in InXfers : xfers[i].res = "LIBUSB_SUCCESS"
    /\ dev_pos <= r_decl

WriteOp == kind \in {"W", "WR"}

---------------------------------------------------------------------------
\* C1, as stated: when the lengths of the transport_write calls of a write
\* operation sum to the declared length and the backend accepts every
\* transfer, the bytes sent, in transfer order, are the bytes passed to
\* transport_write, in call order.
C1_AnySplit ==
    (pc = "idle" /\ WriteOp /\ w_given_n = w_decl /\ BackendAccepts)
        => w_sent = w_given

\* C1: the same, for the sequences of calls in which every call but the
\* completing one leaves at most BUFFER_SIZE bytes staged (w_fit).
C1_ContentPreserving ==
    (pc = "idle" /\ WriteOp /\ w_given_n = w_decl /\ w_fit /\ BackendAccepts)
        => w_sent = w_given

\* An operation of 2 * CHUNK_SIZE + 3 bytes written in several calls and sent
\* in three transfers.
C1_Witness ==
    /\ pc = "idle" /\ WriteOp /\ w_fit /\ BackendAccepts
    /\ w_decl = 2 * CHUNK_SIZE + 3 /\ w_given_n = w_decl
    /\ ncalls >= 2 /\ Len(xfers) = 3
    /\ w_sent = w_given

\* C2: in a read operation whose transport_read calls ask in total for no
\* more than the declared length, against a backend that delivers the
\* operation's bytes in receives of any sizes, every transport_read call
\* returns JAYLINK_OK and the bytes returned so far, in call order, are the
\* first bytes the device produced.
C2_SplitInvariant ==
    (pc = "idle" /\ kind = "R" /\ r_fit /\ BackendDelivers)
        => /\ call.fn = "transport_read" => call.ret = "JAYLINK_OK"
           /\ r_got = BTake(r_produced, r_asked)

\* A read operation of CHUNK_SIZE + 5 bytes read completely in several calls
\* from receives of different sizes, one of them of 2 bytes.
C2_Witness ==
    /\ pc = "idle" /\ kind = "R" /\ r_fit /\ BackendDelivers
    /\ r_decl = CHUNK_SIZE + 5 /\ r_asked = r_decl
    /\ ncalls >= 2 /\ Len(xfers) >= 3
    /\ \E i \in InXfers : xfers[i].n = 2
    /\ call.ret = "JAYLINK_OK"
    /\ r_got = Bytes("d", 1, r_decl)

\* C3: a transport_write call with a length greater than write_length
\* returns JAYLINK_ERR_ARG without a bulk transfer and leaves write_length,
\* write_pos, the read cursors and the scratch buffer as they were.
C3_WriteTooLong ==
    [][\A length \in MixWriteCallLens \cup WriteCallLens :
          (transport_write(length) /\ length > write_length)
              => /\ pc' = "idle"
                 /\ call'.ret = "JAYLINK_ERR_ARG"
                 /\ xfers' = xfers
                 /\ UNCHANGED devh]_vars

\* A too long transport_write was rejected while bytes were staged for
\* writing and bytes were retained for reading.
C3_Witness ==
    /\ pc = "idle" /\ call.fn = "transport_write"
    /\ call.length > call.at.write_length
    /\ call.ret = "JAYLINK_ERR_ARG"
    /\ write_pos > 0 /\ bytes_available > 0

\* C4: a transport_read call with a length greater than read_length +
\* bytes_available returns JAYLINK_ERR_ARG without a bulk transfer and leaves
\* read_length, bytes_available, read_pos, the write cursors and the scratch
\* buffer as they were.
C4_ReadTooLong ==
    [][\A length \in MixReadCallLens \cup ReadCallLens :
          (transport_read(length) /\ length > read_length + bytes_available)
              => /\ pc' = "idle"
                 /\ call'.ret = "JAYLINK_ERR_ARG"
                 /\ xfers' = xfers
                 /\ UNCHANGED devh]_vars

\* A too long transport_read was rejected while bytes were retained for
\* reading and bytes were staged for writing.
C4_Witness ==
    /\ pc = "idle" /\ call.fn = "transport_read"
    /\ call.rlength > read_length + bytes_available
    /\ call.ret = "JAYLINK_ERR_ARG"
    /\ bytes_available > 0 /\ write_pos > 0

\* C5, as stated: after transport_start_write_read(w, r) no receive is
\* attempted before OUT transfers have moved all w bytes, whatever calls
\* follow.
C5_AnyCalls ==
    kind = "WR" => \A i \in InXfers : OutBytes(i - 1) = w_decl

\* C5: the same, when no transport_read call is made before transport_write
\* calls, each returning JAYLINK_OK, have written all w bytes.
C5_WriteThenRead ==
    (kind = "WR" /\ ~early_read) => \A i \in InXfers : OutBytes(i - 1) = w_decl

\* The write was completed in two calls and two OUT transfers, then a
\* transport_read received.
C5_Witness ==
    /\ pc = "idle" /\ kind = "WR" /\ ~early_read
    /\ call.fn = "transport_read" /\ call.ret = "JAYLINK_OK"
    /\ InXfers # {}
    /\ Cardinality(OutXfers) >= 2
    /\ ncalls >= 3

\* C6, as stated: a transport_write call with a length less than
\* write_length returns JAYLINK_OK, copies its bytes to the scratch buffer at
\* write_pos, adds length to write_pos, takes it from write_length and makes
\* no bulk transfer; and a bulk transfer is made only once write_length is 0.
C6_AnyShorter ==
    [][/\ \A length \in WriteCallLens :
             (transport_write(length) /\ length < write_length)
                 => /\ pc' = "idle"
                    /\ call'.ret = "JAYLINK_OK"
                    /\ BSub(buffer', write_pos, length) = Bytes("w", w_given_n + 1, length)
                    /\ BTake(buffer', write_pos) = BTake(buffer, write_pos)
                    /\ BDrop(buffer', write_pos + length) = BDrop(buffer, write_pos + length)
                    /\ write_pos' = write_pos + length
                    /\ write_length' = write_length - length
                    /\ xfers' = xfers
       /\ xfers' # xfers => write_length = 0]_vars

\* C6: the same, for the calls whose bytes fit the scratch buffer
\* (write_pos + length <= BUFFER_SIZE).
C6_Buffered ==
    [][/\ \A length \in WriteCallLens :
             (/\ transport_write(length)
              /\ length < write_length
              /\ write_pos + length <= BUFFER_SIZE)
                 => /\ pc' = "idle"
                    /\ call'.ret = "JAYLINK_OK"
                    /\ BSub(buffer', write_pos, length) = Bytes("w", w_given_n + 1, length)
                    /\ BTake(buffer', write_pos) = BTake(buffer, write_pos)
                    /\ BDrop(buffer', write_pos + length) = BDrop(buffer, write_pos + length)
                    /\ write_pos' = write_pos + length
                    /\ write_length' = write_length - length
                    /\ xfers' = xfers
       /\ xfers' # xfers => write_length = 0]_vars

\* A call of at least one byte was buffered behind bytes staged before it.
C6_Witness ==
    /\ pc = "idle" /\ call.fn = "transport_write"
    /\ call.length >= 1
    /\ call.length < call.at.write_length
    /\ call.at.write_pos > 0
    /\ call.ret = "JAYLINK_OK"
    /\ write_pos = call.at.write_pos + call.length

\* C7: in a write operation of at most CHUNK_SIZE bytes, against a backend
\* that accepts every transfer, nothing is sent while the bytes written are
\* fewer than declared, and once two or more calls have written the declared
\* number the operation has made a single transfer, of exactly the bytes
\* written, in call order.
C7_SmallOperation ==
    (WriteOp /\ w_decl <= CHUNK_SIZE /\ w_fit /\ BackendAccepts)
        => /\ w_given_n < w_decl => xfers = << >>
           /\ (pc = "idle" /\ w_given_n = w_decl /\ ncalls >= 2)
                 => /\ Len(xfers) = 1
                    /\ xfers[1].n = w_decl
                    /\ w_sent = w_given

\* An operation of CHUNK_SIZE bytes written in two calls and sent at once.
C7_Witness ==
    /\ pc = "idle" /\ WriteOp /\ w_fit /\ BackendAccepts
    /\ w_decl = CHUNK_SIZE /\ w_given_n = w_decl
    /\ ncalls = 2 /\ call.length = CHUNK_SIZE - 1
    /\ Len(xfers) = 1

\* The completing transport_write call has returned.
Flushed ==
    /\ pc = "idle"
    /\ call.fn = "transport_write"
    /\ call.length = call.at.write_length

\* The distance from pos to the next multiple of CHUNK_SIZE.
AlignGap(pos) == (CHUNK_SIZE - (pos % CHUNK_SIZE)) % CHUNK_SIZE

\* n bytes cut into pieces of CHUNK_SIZE bytes and a shorter last piece.
RECURSIVE Chunks(_)
Chunks(n) ==
    IF n = 0 THEN << >>
    ELSE << MIN(CHUNK_SIZE, n) >> \o Chunks(n - MIN(CHUNK_SIZE, n))

\* The sizes of the transfers of the last call, and the bytes they moved.
CallSizes ==
    [i \in 1..(Len(xfers) - call.at.xfers) |-> xfers[call.at.xfers + i].n]
CallSent == BDrop(w_sent, OutBytes(call.at.xfers))
CallData == Bytes("w", w_given_n - call.length + 1, call.length)

\* C8, as stated: the completing call, against a backend that accepts every
\* transfer, sends its bytes directly when write_pos is 0; otherwise it
\* appends min(length, fill) bytes to the scratch buffer, sends these
\* write_pos + min(length, fill) bytes as one transfer and the bytes beyond
\* as one second transfer; after the call write_pos = 0 and write_length = 0
\* (whatever the backend did).
C8_TwoTransfers ==
    Flushed
        => /\ write_pos = 0
           /\ write_length = 0
           /\ BackendAccepts
                 => LET pos == call.at.write_pos
                        tmp == MIN(call.length, AlignGap(pos))
                        rest == call.length - tmp
                    IN  /\ call.ret = "JAYLINK_OK"
                        /\ IF pos = 0
                           THEN CallSent = CallData
                           ELSE /\ BSub(buffer, pos, tmp) = BTake(CallData, tmp)
                                /\ CallSent = BCat(BTake(buffer, pos + tmp),
                                                   BDrop(CallData, tmp))
                                /\ CallSizes =
                                      << pos + tmp >>
                                          \o (IF rest = 0 THEN << >> ELSE << rest >>)

\* C8: the same, but the bytes beyond the block are sent after it in
\* transfers of CHUNK_SIZE bytes and a shorter last one, as are the bytes
\* sent directly.
C8_FlushRule ==
    Flushed
        => /\ write_pos = 0
           /\ write_length = 0
           /\ BackendAccepts
                 => LET pos == call.at.write_pos
                        tmp == MIN(call.length, AlignGap(pos))
                        rest == call.length - tmp
                    IN  /\ call.ret = "JAYLINK_OK"
                        /\ IF pos = 0
                           THEN CallSent = CallData /\ CallSizes = Chunks(call.length)
                           ELSE /\ BSub(buffer, pos, tmp) = BTake(CallData, tmp)
                                /\ CallSent = BCat(BTake(buffer, pos + tmp),
                                                   BDrop(CallData, tmp))
                                /\ CallSizes = << pos + tmp >> \o Chunks(rest)

\* The completing call found one byte staged, filled the block up to
\* CHUNK_SIZE and sent CHUNK_SIZE + 3 bytes beyond it.
C8_Witness ==
    /\ Flushed /\ BackendAccepts
    /\ call.at.write_pos = 1
    /\ call.length = 2 * CHUNK_SIZE + 2
    /\ CallSizes = << CHUNK_SIZE, CHUNK_SIZE, 3 >>

\* C9, as stated: whatever the backend does, every OUT transfer of a write
\* operation but the last one moves exactly CHUNK_SIZE bytes.
C9_AnyBackend ==
    WriteOp => \A i \in OutXfers :
                   (\E j \in OutXfers : j > i) => xfers[i].n = CHUNK_SIZE

\* C9: the same, against a backend that moves all the bytes it is asked to
\* move in every transfer.
C9_ChunkAligned ==
    (WriteOp /\ \A i \in OutXfers : xfers[i].n = xfers[i].req)
        => \A i \in OutXfers :
               (\E j \in OutXfers : j > i) => xfers[i].n = CHUNK_SIZE

\* An operation sent in three whole transfers, one of which timed out.
C9_Witness ==
    /\ pc = "idle" /\ WriteOp /\ call.ret = "JAYLINK_OK"
    /\ \A i \in OutXfers : xfers[i].n = xfers[i].req
    /\ \E i \in OutXfers : xfers[i].res = "LIBUSB_ERROR_TIMEOUT"
    /\ Cardinality(OutXfers) = 3
    /\ xfers[Len(xfers)].n = 3

\* transport_start_read(5), then transport_read of 5 bytes whose single
\* receive returned CHUNK_SIZE bytes.
C10_Scenario ==
    /\ pc = "idle" /\ kind = "R" /\ r_decl = 5
    /\ ncalls = 1 /\ call.fn = "transport_read" /\ call.rlength = 5
    /\ xfers = << [dir |-> "IN", req |-> CHUNK_SIZE, n |-> CHUNK_SIZE,
                   res |-> "LIBUSB_SUCCESS"] >>

\* C10, as stated: the call succeeds, returns the first 5 bytes received and
\* CHUNK_SIZE - 5 bytes are retained.
C10_Retained ==
    C10_Scenario
        => /\ call.ret = "JAYLINK_OK"
           /\ r_got = Bytes("d", 1, 5)
           /\ bytes_available = CHUNK_SIZE - 5

\* C10: the call fails with JAYLINK_ERR, returns no byte and no byte is
\* retained; the read operation still expects its 5 bytes.
C10_Rejected ==
    C10_Scenario
        => /\ call.ret = "JAYLINK_ERR"
           /\ r_got = << >>
           /\ bytes_available = 0
           /\ read_length = 5

\* The scenario has happened; the bytes received lie in the scratch buffer.
C10_Witness == C10_Scenario /\ buffer = Bytes("d", 1, CHUNK_SIZE)

\* C11: when a receive moves more bytes than read_length, transport_read
\* returns JAYLINK_ERR at once, without another receive, and read_length,
\* bytes_available and read_pos stay as they were.
C11_ReceiveTooLong ==
    [][\A res \in UsbResults : \A k \in RecvSizes(res) :
          (usb_recv(res, k) /\ k > read_length)
              => /\ pc' = "idle"
                 /\ call'.ret = "JAYLINK_ERR"
                 /\ read_length' = read_length
                 /\ bytes_available' = bytes_available
                 /\ read_pos' = read_pos]_vars

\* A transport_read call failed on its second receive, which moved more
\* bytes than the operation still expected.
C11_Witness ==
    /\ pc = "idle" /\ kind = "R"
    /\ call.fn = "transport_read" /\ call.ret = "JAYLINK_ERR"
    /\ Len(xfers) - call.at.xfers = 2
    /\ xfers[Len(xfers)].res = "LIBUSB_SUCCESS"
    /\ xfers[Len(xfers)].n > read_length

\* The bulk transfers the last call has made, and whether the i-th transfer
\* of the operation timed out without moving a byte.
CallAttempts == Len(xfers) - call.at.xfers
TimedOutEmpty(i) == xfers[i].res = "LIBUSB_ERROR_TIMEOUT" /\ xfers[i].n = 0

\* C12: in transport_read, a receive attempt that times out with zero bytes
\* is followed by another attempt; JAYLINK_ERR_TIMEOUT is returned exactly
\* when two consecutive attempts have timed out with zero bytes; and an
\* attempt that times out with at least one byte ends usb_recv successfully
\* (no JAYLINK_ERR_TIMEOUT, and a receive that follows starts with the whole
\* retry budget).
C12_ConsecutiveTimeouts ==
    (call.fn = "transport_read" /\ CallAttempts >= 1)
        => LET last == Len(xfers)
               two == /\ CallAttempts >= 2
                      /\ TimedOutEmpty(last)
                      /\ TimedOutEmpty(last - 1)
           IN  /\ (pc = "idle" /\ call.ret = "JAYLINK_ERR_TIMEOUT") <=> two
               /\ (TimedOutEmpty(last) /\ ~two) => pc = "recv"
               /\ (xfers[last].res = "LIBUSB_ERROR_TIMEOUT" /\ xfers[last].n >= 1)
                     => /\ call.ret # "JAYLINK_ERR_TIMEOUT"
                        /\ pc = "recv" => fr.tries = NUM_TIMEOUTS

\* The bytes the completing transport_write call has to send: the block of
\* the scratch buffer, if bytes were staged, then the caller's bytes beyond.
CallBlock ==
    IF call.at.write_pos = 0 THEN 0
    ELSE call.at.write_pos + MIN(call.length, AlignGap(call.at.write_pos))
CallToSend ==
    IF call.at.write_pos = 0 THEN CallData
    ELSE BCat(BTake(buffer, CallBlock),
              BDrop(CallData, CallBlock - call.at.write_pos))

\* The bytes the call had sent before its i-th transfer of the operation.
CallSentBefore(i) == OutBytes(i - 1) - OutBytes(call.at.xfers)

\* The last two bulk transfers belong to the last call, timed out, and were
\* made by the same usb_send (the first of them did not finish the block).
TwoSendTimeouts ==
    /\ CallAttempts >= 2
    /\ xfers[Len(xfers)].res = "LIBUSB_ERROR_TIMEOUT"
    /\ xfers[Len(xfers) - 1].res = "LIBUSB_ERROR_TIMEOUT"
    /\ ~ /\ CallBlock # 0
         /\ CallSentBefore(Len(xfers) - 1) < CallBlock
         /\ CallSentBefore(Len(xfers)) = CallBlock

\* The bytes the usb_send that made the last transfer still has to send.
SendLeft ==
    (IF CallBlock # 0 /\ CallSentBefore(Len(xfers)) < CallBlock
     THEN CallBlock ELSE BLen(CallToSend)) - BLen(CallSent)

SendRan == call.fn = "transport_write" /\ CallAttempts >= 1

\* C13, as stated: transport_write returns JAYLINK_ERR_TIMEOUT only after two
\* consecutive attempts that timed out with zero bytes, and the bytes sent are
\* never sent again: what the call has sent is the beginning of what it has
\* to send.
C13_ProgressIsFree ==
    SendRan
        => /\ (pc = "idle" /\ call.ret = "JAYLINK_ERR_TIMEOUT")
                 => /\ CallAttempts >= 2
                    /\ TimedOutEmpty(Len(xfers))
                    /\ TimedOutEmpty(Len(xfers) - 1)
           /\ CallSent = BTake(CallToSend, BLen(CallSent))

\* C13: transport_write returns JAYLINK_ERR_TIMEOUT exactly when two
\* consecutive attempts of one usb_send have timed out, whatever they moved,
\* and left bytes of that usb_send unsent; the bytes sent are never sent again.
C13_SendRetry ==
    SendRan
        => /\ (pc = "idle" /\ call.ret = "JAYLINK_ERR_TIMEOUT")
                 <=> (TwoSendTimeouts /\ SendLeft > 0)
           /\ CallSent = BTake(CallToSend, BLen(CallSent))

\* JAYLINK_ERR_TIMEOUT after two timed-out attempts that moved one byte each.
C13_Witness ==
    /\ SendRan /\ pc = "idle" /\ call.ret = "JAYLINK_ERR_TIMEOUT"
    /\ CallAttempts = 2
    /\ xfers[Len(xfers)].n = 1
    /\ xfers[Len(xfers) - 1].n = 1
    /\ CallBlock # 0

\* C14: a bulk transfer of the last call that failed with an error other than
\* a timeout is the last transfer of that call, and the call has returned
\* JAYLINK_ERR.
C14_ErrorAborts ==
    \A i \in (call.at.xfers + 1)..Len(xfers) :
        xfers[i].res = "LIBUSB_ERROR_IO"
            => /\ i = Len(xfers)
               /\ pc = "idle"
               /\ call.fn \in {"transport_write", "transport_read"}
               /\ call.ret = "JAYLINK_ERR"

\* A transport_read that met the error on its second attempt, with one try
\* left, after the write of the same exchange.
C14_Witness ==
    /\ kind = "WR" /\ WriteCompleted
    /\ pc = "idle" /\ call.fn = "transport_read" /\ call.ret = "JAYLINK_ERR"
    /\ CallAttempts = 2
    /\ TimedOutEmpty(Len(xfers) - 1)
    /\ xfers[Len(xfers)].res = "LIBUSB_ERROR_IO"

\* C15: transport_start_write(0), transport_start_read(0) and
\* transport_start_write_read(w, r) with w = 0 or r = 0 return
\* JAYLINK_ERR_ARG and leave write_length, write_pos, read_length,
\* bytes_available and read_pos as they were.
C15_ZeroRejected ==
    [][(\/ transport_start_write(0)
        \/ transport_start_read(0)
        \/ \E wlength \in MixWriteOpLens, rlength \in MixReadOpLens :
              /\ wlength = 0 \/ rlength = 0
              /\ transport_start_write_read(wlength, rlength))
          => /\ call'.ret = "JAYLINK_ERR_ARG"
             /\ pc' = "idle"
             /\ UNCHANGED <<write_length, write_pos, read_length,
                            bytes_available, read_pos>>]_vars

\* transport_start_write_read(3, 0) was rejected while a write operation had
\* bytes staged and bytes to come.
C15_Witness ==
    /\ call.fn = "transport_start_write_read" /\ call.ret = "JAYLINK_ERR_ARG"
    /\ call.length # 0 /\ call.rlength = 0
    /\ write_pos # 0 /\ write_length # 0

\* C16: every transport_start_write, transport_start_read and
\* transport_start_write_read with non-zero lengths returns JAYLINK_OK,
\* overwrites its cursors with the declared lengths and zero positions,
\* leaves the other operation's cursors alone, makes no bulk transfer, and
\* warns exactly when a cursor of the operation it replaces (write_pos or
\* write_length, bytes_available or read_length) was non-zero.
C16_StartOverwrites ==
    [][\A wlength \in MixWriteOpLens \ {0}, rlength \in MixReadOpLens \ {0} :
          /\ transport_start_write(wlength)
                => /\ pc' = "idle" /\ call'.ret = "JAYLINK_OK"
                   /\ write_length' = wlength /\ write_pos' = 0
                   /\ UNCHANGED <<read_length, bytes_available, read_pos>>
                   /\ xfers' = << >>
                   /\ call'.warn # {} <=> (write_pos # 0 \/ write_length # 0)
          /\ transport_start_read(rlength)
                => /\ pc' = "idle" /\ call'.ret = "JAYLINK_OK"
                   /\ read_length' = rlength /\ bytes_available' = 0 /\ read_pos' = 0
                   /\ UNCHANGED <<write_length, write_pos>>
                   /\ xfers' = << >>
                   /\ call'.warn # {} <=> (bytes_available # 0 \/ read_length # 0)
          /\ transport_start_write_read(wlength, rlength)
                => /\ pc' = "idle" /\ call'.ret = "JAYLINK_OK"
                   /\ write_length' = wlength /\ write_pos' = 0
                   /\ read_length' = rlength /\ bytes_available' = 0 /\ read_pos' = 0
                   /\ xfers' = << >>
                   /\ call'.warn # {} <=> (\/ write_pos # 0 \/ write_length # 0
                                          \/ bytes_available # 0 \/ read_length # 0)]_vars

\* transport_start_write found bytes staged and bytes to come, and returned
\* JAYLINK_OK with both warnings.
C16_Witness ==
    /\ call.fn = "transport_start_write" /\ call.ret = "JAYLINK_OK"
    /\ call.at.write_pos # 0 /\ call.at.write_length # 0
    /\ write_pos = 0 /\ write_length = call.length
    /\ call.warn = {"Last write operation left bytes in the buffer.",
                    "Last write operation was not performed."}

\* C17, as stated: once a write operation has been started, write_pos +
\* write_length does not exceed BUFFER_SIZE.
C17_SumFits ==
    kind \in {"W", "WR"} => write_pos + write_length <= BUFFER_SIZE

\* C17: once a write operation has been started, write_pos does not exceed
\* BUFFER_SIZE and the scratch buffer keeps its BUFFER_SIZE bytes; as long as
\* bytes are to come, write_pos + write_length is the declared length,
\* whatever the capacity.
C17_StagedFits ==
    kind \in {"W", "WR"}
        => /\ write_pos <= BUFFER_SIZE
           /\ BLen(buffer) = BUFFER_SIZE
           /\ write_length # 0 => write_pos + write_length = w_decl

\* The scratch buffer is full, more bytes are to come than it holds, and a
\* call that brought some of them was rejected.
C17_Witness ==
    /\ kind = "W" /\ pc = "idle"
    /\ write_pos = BUFFER_SIZE /\ write_length > BUFFER_SIZE
    /\ call.fn = "transport_write" /\ call.ret = "JAYLINK_ERR_ARG"
    /\ call.length # 0 /\ call.length < write_length

\* C18: transport_close, called on an open handle, closes the libusb device
\* handle and frees the scratch buffer whether or not the interface was
\* released, and returns JAYLINK_ERR exactly when the release failed,
\* JAYLINK_OK otherwise.
C18_CloseReleases ==
    [][\A released \in BOOLEAN :
          transport_close(released)
              => /\ usb_open /\ allocated
                 /\ ~usb_open' /\ ~allocated'
                 /\ pc' = "idle"
                 /\ call'.ret = "JAYLINK_ERR" <=> ~released
                 /\ call'.ret = "JAYLINK_OK" <=> released]_vars

\* The handle was closed in the middle of an exchange, the release failed.
C18_Witness ==
    /\ life = "closed" /\ call.fn = "transport_close" /\ call.ret = "JAYLINK_ERR"
    /\ ~usb_open /\ ~allocated
    /\ kind = "WR" /\ write_pos # 0

C20_SameAsWriteThenRead ==
    [][\A wlength \in MixWriteOpLens \ {0}, rlength \in MixReadOpLens \ {0} :
          /\ transport_start_write(wlength)
                => call'.ret = "JAYLINK_OK" /\ Cursors' = StartWrite(Cursors, wlength)
          /\ transport_start_read(rlength)
                => call'.ret = "JAYLINK_OK" /\ Cursors' = StartRead(Cursors, rlength)
          /\ transport_start_write_read(wlength, rlength)
                => /\ call'.ret = "JAYLINK_OK"
                   /\ Cursors' = StartRead(StartWrite(Cursors, wlength), rlength)]_vars

\* transport_start_write_read was called over a write operation with bytes
\* staged and bytes to come and a read operation with bytes buffered.
C20_Witness ==
    /\ call.fn = "transport_start_write_read" /\ call.ret = "JAYLINK_OK"
    /\ call.at.write_pos # 0 /\ call.at.write_length # 0
    /\ "Last read operation left bytes in the buffer." \in call.warn
    /\ Cursors = [write_length |-> call.length, write_pos |-> 0,
                  read_length |-> call.rlength, bytes_available |-> 0,
                  read_pos |-> 0]

\* What usb_send and usb_recv do after a bulk transfer that ended with res
\* and k bytes: return a result, or make another transfer ("running").
SendReturns(res, k) ==
    IF res \notin {"LIBUSB_SUCCESS", "LIBUSB_ERROR_TIMEOUT"} THEN "JAYLINK_ERR"
    ELSE IF fr.s_len - k = 0 THEN "JAYLINK_OK"
    ELSE IF res = "LIBUSB_ERROR_TIMEOUT" /\ fr.tries = 1 THEN "JAYLINK_ERR_TIMEOUT"
    ELSE "running"

RecvReturns(res, k) ==
    IF res \notin {"LIBUSB_SUCCESS", "LIBUSB_ERROR_TIMEOUT"} THEN "JAYLINK_ERR"
    ELSE IF k # 0 THEN "JAYLINK_OK"
    ELSE IF res = "LIBUSB_ERROR_TIMEOUT" /\ fr.tries = 1 THEN "JAYLINK_ERR_TIMEOUT"
    ELSE "running"

Failures == {"JAYLINK_ERR", "JAYLINK_ERR_TIMEOUT"}

\* C21: the bulk transfer after which usb_send or usb_recv returns
\* JAYLINK_ERR or JAYLINK_ERR_TIMEOUT is the last of the transport_write or
\* transport_read call, which returns that code; when it is the send of the
\* buffered block that fails, the call ends there, with the caller's bytes
\* beyond the block unsent and the buffer given up (write_pos = 0); a failed
\* receive leaves the read cursors as they were.
C21_NoRecovery ==
    [][/\ \A res \in UsbResults : \A k \in SendSizes(res) :
             (usb_send(res, k) /\ SendReturns(res, k) \in Failures)
                 => /\ pc' = "idle"
                    /\ call'.fn = "transport_write"
                    /\ call'.ret = SendReturns(res, k)
                    /\ fr.phase = "block" => write_pos' = 0
                    /\ w_failed'
       /\ \A res \in UsbResults : \A k \in RecvSizes(res) :
             (usb_recv(res, k) /\ RecvReturns(res, k) \in Failures)
                 => /\ pc' = "idle"
                    /\ call'.fn = "transport_read"
                    /\ call'.ret = RecvReturns(res, k)
                    /\ UNCHANGED <<read_length, bytes_available, read_pos>>]_vars

\* The send of the buffered block timed out twice; transport_write returned
\* JAYLINK_ERR_TIMEOUT without sending the three bytes beyond the block.
C21_Witness ==
    /\ pc = "idle" /\ call.fn = "transport_write"
    /\ call.ret = "JAYLINK_ERR_TIMEOUT"
    /\ CallBlock = CHUNK_SIZE /\ BLen(CallToSend) = CHUNK_SIZE + 3
    /\ BLen(CallSent) < CallBlock
    /\ CallAttempts = 2
    /\ write_pos = 0

\* The transport calls of a jaylink_fine_io() call that runs to its end.
FineScript ==
    << [fn |-> "transport_start_write_read",
        length |-> U16(13 + fine.out_length), rlength |-> U16(4 + fine.in_length)],
       [fn |-> "transport_write", length |-> 13, rlength |-> 0],
       [fn |-> "transport_write", length |-> U16(fine.out_length), rlength |-> 0],
       [fn |-> "transport_read", length |-> 0, rlength |-> U16(fine.in_length)],
       [fn |-> "transport_read", length |-> 0, rlength |-> 4] >>

FineOrdered ==
    fine.calls # << >>
        => /\ Len(fine.calls) <= Len(FineScript)
           /\ fine.calls = SubSeq(FineScript, 1, Len(fine.calls))
           /\ \A i \in OutXfers : \A j \in InXfers : i < j
           /\ InXfers # {} => (WriteCompleted /\ w_sent = w_given)
           /\ fine.pc = "done"
                 => /\ fine.ret = call.ret
                    /\ call.fn = fine.calls[Len(fine.calls)].fn
                    /\ fine.ret = "JAYLINK_OK" => Len(fine.calls) = Len(FineScript)

\* C22: jaylink_fine_io, given non-NULL pointers, makes its transport calls
\* in the order transport_start_write_read, transport_write of the 13 header
\* bytes, transport_write of the out data, transport_read of the in data,
\* transport_read of the 4 status bytes; it makes a call only after the call
\* before returned JAYLINK_OK, and otherwise returns that call's result;
\* every bulk transfer to the device precedes every bulk transfer from it,
\* and none from it is made unless all declared bytes were written and sent.
C22_WriteThenRead ==
    [][/\ FineOrdered'
       /\ (fine.calls # << >> /\ Len(fine.calls') > Len(fine.calls))
             => call.ret = "JAYLINK_OK"
       /\ (fine.calls # << >> /\ pc = "idle" /\ call.ret # "JAYLINK_OK"
             /\ fine.pc # "done")
             => (fine'.pc = "done" /\ fine'.ret = call.ret)]_vars

\* A call that ran to its end: the header was staged, the write was longer
\* than the scratch buffer, and data and status were read.
C22_Witness ==
    /\ fine.pc = "done" /\ fine.ret = "JAYLINK_OK"
    /\ fine.out_length = CHUNK_SIZE /\ fine.in_length = 1
    /\ Len(fine.calls) = 5
    /\ OutXfers # {} /\ InXfers # {}
    /\ w_sent = Bytes("w", 1, 13 + CHUNK_SIZE)

\* C24, as stated: the transport_start_write_read call of jaylink_fine_io
\* declares 13 + out_length and 4 + in_length bytes, none of its transport
\* calls returns JAYLINK_ERR_ARG, and when it returns JAYLINK_OK no byte is
\* left to write, staged, left to read or buffered.
C24_ExactTotals ==
    fine.calls # << >>
        => /\ pc = "idle" => call.ret # "JAYLINK_ERR_ARG"
           /\ (fine.pc = "done" /\ fine.ret = "JAYLINK_OK")
                 => /\ write_length = 0 /\ write_pos = 0
                    /\ read_length = 0 /\ bytes_available = 0
                    /\ w_decl = 13 + fine.out_length
                    /\ r_decl = 4 + fine.in_length

\* C23: a transport_read call with length <= bytes_available returns
\* JAYLINK_OK with the length bytes of the scratch buffer at read_pos,
\* decreases bytes_available and advances read_pos by length, leaves
\* read_length and the buffer as they were and makes no bulk transfer.
C23_ServedFromBuffer ==
    [][\A length \in ReadCallLens :
          (transport_read(length) /\ length <= bytes_available)
              => /\ pc' = "idle"
                 /\ call'.ret = "JAYLINK_OK"
                 /\ r_got' = BCat(r_got, BSub(buffer, read_pos, length))
                 /\ bytes_available' = bytes_available - length
                 /\ read_pos' = read_pos + length
                 /\ read_length' = read_length
                 /\ buffer' = buffer
                 /\ xfers' = xfers]_vars

\* Of five bytes received at once, the first two were returned by the call
\* that received them and the next two by a call served from the buffer,
\* which still holds the fifth.
C23_Witness ==
    /\ pc = "idle" /\ kind = "R"
    /\ call.fn = "transport_read" /\ call.rlength = 2 /\ call.ret = "JAYLINK_OK"
    /\ CallAttempts = 0
    /\ Len(xfers) = 1 /\ xfers[1].n = 5
    /\ bytes_available = 1 /\ read_pos = 4 /\ read_length = 0
    /\ r_got = Bytes("d", 1, 4)

\* C25: no call stores outside the scratch buffer or the caller's buffer. The
\* scratch buffer keeps its BUFFER_SIZE bytes, write_pos is at most
\* BUFFER_SIZE and read_pos + bytes_available is at most BUFFER_SIZE in every
\* state; while transport_read receives, the caller's buffer keeps the
\* length of the call, the bytes still to store end where it ends, every
\* receive asks for at most CHUNK_SIZE bytes, and the receive goes to the
\* caller's buffer exactly when at least CHUNK_SIZE bytes remain; the bytes
\* handed to the caller never outnumber the bytes asked for.
C25_BufferSafety ==
    /\ BLen(buffer) = BUFFER_SIZE
    /\ write_pos <= BUFFER_SIZE
    /\ read_pos + bytes_available <= BUFFER_SIZE
    /\ BLen(r_got) <= r_asked
    /\ pc = "recv"
          => /\ BLen(arg) = call.rlength
             /\ fr.off + fr.len = call.rlength
             /\ fr.s_len <= CHUNK_SIZE
             /\ fr.s_base = "arg" <=> fr.len >= CHUNK_SIZE
             /\ fr.s_base = "scratch" <=> fr.len < CHUNK_SIZE

\* After a transport_write that filled the scratch buffer, a transport_read
\* of CHUNK_SIZE bytes received into the caller's buffer, and a
\* transport_read of 3 bytes received 5 bytes into the scratch buffer, of
\* which 2 remain.
C25_Witness ==
    /\ pc = "idle" /\ kind = "WR"
    /\ call.fn = "transport_read" /\ call.rlength = 3 /\ call.ret = "JAYLINK_OK"
    /\ bytes_available = 2 /\ read_pos = 3
    /\ BLen(r_got) = CHUNK_SIZE + 3
    /\ \E i \in InXfers : xfers[i].n = CHUNK_SIZE
    /\ write_pos = BUFFER_SIZE

\* C26: a bulk transfer after which usb_send or usb_recv goes on never leaves
\* the handle and the running call as they were before it: each attempt
\* either ends the call, moves bytes or uses up one of the NUM_TIMEOUTS
\* tries, whatever the result and the byte count of the transfer, so that no
\* call can go on for ever.
C26_EveryAttemptAdvances ==
    [][/\ \A res \in UsbResults : \A k \in SendSizes(res) :
             (usb_send(res, k) /\ pc' = "send")
                 => <<devh, arg, fr>>' # <<devh, arg, fr>>
       /\ \A res \in UsbResults : \A k \in MixRecvSizes(res) :
             (usb_recv(res, k) /\ pc' = "recv")
                 => <<devh, arg, fr>>' # <<devh, arg, fr>>]_vars

\* The bytes staged in the scratch buffer are the last write_pos bytes passed
\* to transport_write.
StagedIntact ==
    BTake(buffer, write_pos) = BSub(w_given, w_given_n - write_pos, write_pos)

\* The bytes buffered for reading are the last bytes_available bytes the
\* device produced.
BufferedIntact ==
    BSub(buffer, read_pos, bytes_available)
        = BSub(r_produced, dev_pos - bytes_available, bytes_available)

\* In a write and read operation: the calls kept to the declared lengths and
\* no transfer failed.
PairedOp ==
    /\ pc = "idle" /\ kind = "WR"
    /\ w_fit /\ ~w_failed /\ BackendAccepts
    /\ r_fit /\ BackendDelivers

\* C27, as stated: in a write and read operation the staged bytes are the
\* bytes written, a completed write has sent exactly the bytes written, the
\* bytes buffered for reading are the bytes received and the bytes read are
\* the bytes the device produced, whatever the order of the transport_write
\* and transport_read calls.
C27_Isolated ==
    PairedOp
        => /\ StagedIntact
           /\ w_given_n = w_decl => w_sent = w_given
           /\ BufferedIntact
           /\ r_got = BTake(r_produced, r_asked)

\* C27: the same, when no transport_read call was made before the write
\* operation was completed.
C27_IsolatedInOrder ==
    (PairedOp /\ ~early_read)
        => /\ StagedIntact
           /\ w_given_n = w_decl => w_sent = w_given
           /\ BufferedIntact
           /\ r_got = BTake(r_produced, r_asked)

\* A write operation of 3 bytes staged by one call and completed by a second,
\* then a transport_read of 2 bytes whose receive brought 5 bytes, 3 of which
\* stay buffered.
C27_Witness ==
    /\ PairedOp /\ ~early_read
    /\ w_decl = 3 /\ w_given_n = 3 /\ w_sent = w_given
    /\ ncalls = 3
    /\ call.fn = "transport_read" /\ call.ret = "JAYLINK_OK"
    /\ bytes_available = 3 /\ read_pos = 2
    /\ r_got = Bytes("d", 1, 2)

====
